---- MODULE Spec2Model ----
(***************************************************************************)
(* Hybrid retrieval system: the graph index (graph/graph_search.py), the   *)
(* vector index (search/vector_search.py), the fusion of the two           *)
(* (search/hybrid_search.py), the module-level snapshots loaded at import, *)
(* and the CRUD handlers of main.py working on data/nodes.json and         *)
(* data/edges.json.                                                        *)
(***************************************************************************)
EXTENDS Integers, Sequences, FiniteSets, TLC

\* ------------------------------------------------------------------ bounds
MaxNode == 3
MaxEdges == 3
MaxDepth == 2
MaxEdgeId == 2
MaxNodeId == 2
MaxRequests == 2

\* ------------------------------------------------------- program constants
DefaultType == "related_to"
DefaultWeight == 1
DefaultDepth == 2

NodeIds == 1..MaxNode
Types == {"related_to", "evolves_into"}
Depths == {-1} \cup (0..MaxDepth)

Range(s) == {s[i] : i \in 1..Len(s)}

\* Python's None, for a string-valued slot.
None == "None"

VARIABLES
    nodesFile,   \* content of data/nodes.json
    edgesFile,   \* content of data/edges.json
    NODES,       \* vector_search.NODES, loaded at import
    EMB_ARRAY,   \* vector_search.EMB_ARRAY, stacked at import
    NODE_IDS,    \* vector_search.NODE_IDS, listed at import
    hybrid_NODES,\* hybrid_search.NODES, loaded at import
    EDGES,       \* graph_search.EDGES, loaded at import
    ADJ,         \* graph_search.ADJ, built at import
    pc,          \* per request thread: the handler step it is at
    req,         \* per request thread: the request it serves
    loc,         \* per request thread: the handler's local variables
    ret,         \* per request thread: the last response its caller received
    served       \* per request thread: the number of requests it has taken

vars == <<nodesFile, edgesFile, NODES, EMB_ARRAY, NODE_IDS, hybrid_NODES, EDGES, ADJ,
          pc, req, loc, ret, served>>
files == <<nodesFile, edgesFile>>
snapshot == <<NODES, EMB_ARRAY, NODE_IDS, hybrid_NODES, EDGES, ADJ>>

\* FastAPI serves the synchronous handlers of main.py from a thread pool.
Threads == {"t1", "t2"}

\* ------------------------------------------------------------ graph index
\* e.get("type", "related_to"), e.get("weight", 1.0)
EdgeType(e) == IF "type" \in DOMAIN e THEN e.type ELSE DefaultType
EdgeWeight(e) == IF "weight" \in DOMAIN e THEN e.weight ELSE DefaultWeight

\* ADJ.setdefault(k, []).append(entry)
AdjAppend(adj, k, entry) ==
    IF k \in DOMAIN adj
    THEN [adj EXCEPT ![k] = Append(@, entry)]
    ELSE adj @@ (k :> <<entry>>)

RECURSIVE BuildLoop(_, _, _)
BuildLoop(edges, i, adj) ==
    IF i > Len(edges) THEN adj
    ELSE LET e == edges[i]
             fwd == [target |-> e.target, type |-> EdgeType(e), weight |-> EdgeWeight(e)]
             bwd == [target |-> e.source, type |-> EdgeType(e), weight |-> EdgeWeight(e)]
         IN BuildLoop(edges, i + 1, AdjAppend(AdjAppend(adj, e.source, fwd), e.target, bwd))

\* A mutant of BuildADJ: the backward entry takes the default weight.
RECURSIVE BuildLoopBackDefault(_, _, _)
BuildLoopBackDefault(edges, i, adj) ==
    IF i > Len(edges) THEN adj
    ELSE LET e == edges[i]
             fwd == [target |-> e.target, type |-> EdgeType(e), weight |-> EdgeWeight(e)]
             bwd == [target |-> e.source, type |-> EdgeType(e), weight |-> DefaultWeight]
         IN BuildLoopBackDefault(edges, i + 1,
                                 AdjAppend(AdjAppend(adj, e.source, fwd), e.target, bwd))

BuildADJBackDefault(edges) ==
    IF \E i \in 1..Len(edges) : ~({"source", "target"} \subseteq DOMAIN edges[i])
    THEN <<>>
    ELSE BuildLoopBackDefault(edges, 1, <<>>)

\* The try block of graph_search.py: any exception leaves ADJ = {}.
BuildADJ(edges) ==
    IF \E i \in 1..Len(edges) : ~({"source", "target"} \subseteq DOMAIN edges[i])
    THEN <<>>
    ELSE BuildLoop(edges, 1, <<>>)

\* allowed_types: None, or a list of type names.
AllowedNone == [is_none |-> TRUE, items |-> <<>>]
AllowedList(s) == [is_none |-> FALSE, items |-> s]
\* A mutant of Truthy: every list, the empty one included, is a filter.
TruthyNotNone(a) == ~a.is_none

\* Python truthiness of allowed_types
Truthy(a) == ~a.is_none /\ Len(a.items) > 0

\* ADJ.get(node, [])
AdjGet(adj, n) == IF n \in DOMAIN adj THEN adj[n] ELSE <<>>

\* A mutant of Expand: the type filter is not applied.
RECURSIVE ExpandNoFilter(_, _, _, _, _, _)
ExpandNoFilter(es, i, depth, allowed, queue, visited) ==
    IF i > Len(es) THEN [queue |-> queue, visited |-> visited]
    ELSE LET e == es[i] IN
         IF e.target \notin visited
         THEN ExpandNoFilter(es, i + 1, depth, allowed,
                     Append(queue, [node |-> e.target, depth |-> depth + 1,
                                    edge_type |-> e.type, weight |-> e.weight]),
                     visited \cup {e.target})
         ELSE ExpandNoFilter(es, i + 1, depth, allowed, queue, visited)

\* A mutant of Expand: among the edges of one node to a new neighbour, the one
\* stored last is the one enqueued.
RECURSIVE ExpandLastEdge(_, _, _, _, _, _)
ExpandLastEdge(es, i, depth, allowed, queue, visited) ==
    IF i > Len(es) THEN [queue |-> queue, visited |-> visited]
    ELSE LET e == es[i] IN
         IF Truthy(allowed) /\ e.type \notin Range(allowed.items)
         THEN ExpandLastEdge(es, i + 1, depth, allowed, queue, visited)
         ELSE IF e.target \notin visited
         THEN ExpandLastEdge(es, i + 1, depth, allowed,
                     Append(queue, [node |-> e.target, depth |-> depth + 1,
                                    edge_type |-> e.type, weight |-> e.weight]),
                     visited \cup {e.target})
         ELSE ExpandLastEdge(es, i + 1, depth, allowed,
                     [k \in 1..Len(queue) |->
                         IF queue[k].node = e.target /\ queue[k].depth = depth + 1
                         THEN [queue[k] EXCEPT !.edge_type = e.type, !.weight = e.weight]
                         ELSE queue[k]],
                     visited)

\* The for loop over ADJ.get(node, []) of bfs.
RECURSIVE Expand(_, _, _, _, _, _)
Expand(es, i, depth, allowed, queue, visited) ==
    IF i > Len(es) THEN [queue |-> queue, visited |-> visited]
    ELSE LET e == es[i] IN
         IF Truthy(allowed) /\ e.type \notin Range(allowed.items)
         THEN Expand(es, i + 1, depth, allowed, queue, visited)
         ELSE IF e.target \notin visited
         THEN Expand(es, i + 1, depth, allowed,
                     Append(queue, [node |-> e.target, depth |-> depth + 1,
                                    edge_type |-> e.type, weight |-> e.weight]),
                     visited \cup {e.target})
         ELSE Expand(es, i + 1, depth, allowed, queue, visited)

\* A helper of the mutant below: neighbours are enqueued without being marked.
RECURSIVE ExpandNoMark(_, _, _, _, _, _)
ExpandNoMark(es, i, depth, allowed, queue, visited) ==
    IF i > Len(es) THEN [queue |-> queue, visited |-> visited]
    ELSE LET e == es[i] IN
         IF Truthy(allowed) /\ e.type \notin Range(allowed.items)
         THEN ExpandNoMark(es, i + 1, depth, allowed, queue, visited)
         ELSE IF e.target \notin visited
         THEN ExpandNoMark(es, i + 1, depth, allowed,
                     Append(queue, [node |-> e.target, depth |-> depth + 1,
                                    edge_type |-> e.type, weight |-> e.weight]),
                     visited)
         ELSE ExpandNoMark(es, i + 1, depth, allowed, queue, visited)

\* A mutant of BfsLoop: a node is marked visited when dequeued, not when enqueued.
RECURSIVE BfsLoopLateMark(_, _, _, _, _, _)
BfsLoopLateMark(adj, queue, visited, results, max_depth, allowed) ==
    IF queue = <<>> THEN results
    ELSE LET h == Head(queue)
             res1 == IF h.depth > 0
                     THEN Append(results, [id |-> h.node, hop |-> h.depth,
                                           edge |-> h.edge_type, weight |-> h.weight])
                     ELSE results
             vis1 == visited \cup {h.node}
         IN IF h.depth = max_depth
            THEN BfsLoopLateMark(adj, Tail(queue), vis1, res1, max_depth, allowed)
            ELSE LET x == ExpandNoMark(AdjGet(adj, h.node), 1, h.depth, allowed,
                                       Tail(queue), vis1)
                 IN BfsLoopLateMark(adj, x.queue, x.visited, res1, max_depth, allowed)

\* A mutant of BfsLoop: the depth cutoff is tested before the node is emitted.
RECURSIVE BfsLoopCutFirst(_, _, _, _, _, _)
BfsLoopCutFirst(adj, queue, visited, results, max_depth, allowed) ==
    IF queue = <<>> THEN results
    ELSE LET h == Head(queue)
         IN IF h.depth = max_depth
            THEN BfsLoopCutFirst(adj, Tail(queue), visited, results, max_depth, allowed)
            ELSE LET res1 == IF h.depth > 0
                             THEN Append(results, [id |-> h.node, hop |-> h.depth,
                                                   edge |-> h.edge_type,
                                                   weight |-> h.weight])
                             ELSE results
                     x == Expand(AdjGet(adj, h.node), 1, h.depth, allowed,
                                 Tail(queue), visited)
                 IN BfsLoopCutFirst(adj, x.queue, x.visited, res1, max_depth, allowed)

\* The while loop of bfs.
RECURSIVE BfsLoop(_, _, _, _, _, _)
BfsLoop(adj, queue, visited, results, max_depth, allowed) ==
    IF queue = <<>> THEN results
    ELSE LET h == Head(queue)
             res1 == IF h.depth > 0
                     THEN Append(results, [id |-> h.node, hop |-> h.depth,
                                           edge |-> h.edge_type, weight |-> h.weight])
                     ELSE results
         IN IF h.depth = max_depth
            THEN BfsLoop(adj, Tail(queue), visited, res1, max_depth, allowed)
            ELSE LET x == Expand(AdjGet(adj, h.node), 1, h.depth, allowed,
                                 Tail(queue), visited)
                 IN BfsLoop(adj, x.queue, x.visited, res1, max_depth, allowed)

\* A mutant of bfs: the visited set is not seeded with start_id.
bfsUnseeded(adj, start_id, max_depth, allowed) ==
    IF start_id \notin DOMAIN adj THEN <<>>
    ELSE BfsLoop(adj, <<[node |-> start_id, depth |-> 0,
                         edge_type |-> None, weight |-> None]>>,
                 {}, <<>>, max_depth, allowed)

\* A mutant of bfs: a start_id without adjacency entry is emitted as its own result.
bfsEmitsUnknownStart(adj, start_id, max_depth, allowed) ==
    IF start_id \notin DOMAIN adj
    THEN <<[id |-> start_id, hop |-> 0, edge |-> None, weight |-> None]>>
    ELSE BfsLoop(adj, <<[node |-> start_id, depth |-> 0,
                         edge_type |-> None, weight |-> None]>>,
                 {start_id}, <<>>, max_depth, allowed)

bfs(adj, start_id, max_depth, allowed) ==
    IF start_id \notin DOMAIN adj THEN <<>>
    ELSE BfsLoop(adj, <<[node |-> start_id, depth |-> 0,
                         edge_type |-> None, weight |-> None]>>,
                 {start_id}, <<>>, max_depth, allowed)

\* ------------------------------------------------------------ collaborators
Names == {"A", "b"}
Texts == {"plain", "a is B"}

\* str.lower()
Lower(s) == CASE s = "A" -> "a" [] s = "B" -> "b" [] OTHER -> s

\* models.embeddings.embed_text: the embedding oracle, a function of the text
embed_text(text) == IF text = "plain" THEN <<1, 0>> ELSE <<0, 1>>

\* graph.nlp.relation_extractor.extract_relations: the triple producer
extract_relations(text) ==
    IF text = "a is B"
    THEN <<[subject |-> "a", relation |-> "is", object |-> "B"]>>
    ELSE <<>>

\* ------------------------------------------------------------ scores
\* The float scores (vector_score, graph_score) are rationals here, held as
\* integer multiples of 1/ScoreUnit: the score 1.0 is ScoreUnit.
ScoreUnit == 60

\* The float alpha is held in tenths: alpha = 1.0 is AlphaUnit, and final_score
\* is an integer multiple of 1/(ScoreUnit * AlphaUnit).
AlphaUnit == 10

Min(a, b) == IF a <= b THEN a ELSE b
Max(a, b) == IF a >= b THEN a ELSE b

\* an optional integer: None, or a value
Nothing == <<>>
Some(x) == <<x>>

\* Python's seq[:k]
Slice(s, k) == SubSeq(s, 1, IF k >= 0 THEN Min(k, Len(s)) ELSE Max(Len(s) + k, 0))

\* graph_closeness: linear scan for the first entry with the id
RECURSIVE ClosenessScan(_, _, _)
ClosenessScan(node_id, bfs_results, i) ==
    IF i > Len(bfs_results) THEN 0
    ELSE LET r == bfs_results[i] IN
         IF r.id = node_id
         THEN LET hop == r.hop
                  wt == IF "weight" \in DOMAIN r THEN r.weight ELSE DefaultWeight
                  base == ScoreUnit \div (1 + hop)
              IN base * wt
         ELSE ClosenessScan(node_id, bfs_results, i + 1)

\* A mutant of graph_closeness: the base is 1 / hop.
graph_closenessPerHop(node_id, bfs_results) ==
    IF \E i \in 1..Len(bfs_results) : bfs_results[i].id = node_id
    THEN LET r == bfs_results[CHOOSE i \in 1..Len(bfs_results) :
                                 /\ bfs_results[i].id = node_id
                                 /\ \A j \in 1..(i - 1) : bfs_results[j].id # node_id]
         IN (ScoreUnit \div r.hop) * r.weight
    ELSE 0

graph_closeness(node_id, bfs_results) == ClosenessScan(node_id, bfs_results, 1)

\* ------------------------------------------------------------ vector index
RECURSIVE Dot(_, _, _)
Dot(a, b, i) == IF i > Len(a) THEN 0 ELSE a[i] * b[i] + Dot(a, b, i + 1)

\* np.linalg.norm of a vector whose squared length is a perfect square
Norm(v) == CHOOSE n \in 0..Dot(v, v, 1) : n * n = Dot(v, v, 1)

\* one row of cosine_vec_matrix: a zero denominator is replaced by 1e-9, and the
\* dot product of a zero vector is 0
Cosine(row, vector) ==
    LET denom == Norm(row) * Norm(vector)
    IN IF denom = 0 THEN 0 ELSE (ScoreUnit * Dot(row, vector, 1)) \div denom

cosine_vec_matrix(matrix, vector) == [i \in 1..Len(matrix) |-> Cosine(matrix[i], vector)]

\* np.argsort(sims)[::-1]: ascending with ties in index order, then reversed
RECURSIVE ArgsortDesc(_, _)
ArgsortDesc(sims, left) ==
    IF left = {} THEN <<>>
    ELSE LET i == CHOOSE i \in left :
                    \A j \in left : sims[j] < sims[i] \/ (sims[j] = sims[i] /\ j <= i)
         IN <<i>> \o ArgsortDesc(sims, left \ {i})

\* the matrix product of cosine_vec_matrix raises when a row and the query differ
\* in length, and the norm along axis 1 raises on an array of ragged rows
SearchRaises(nodes, emb, query_text) ==
    /\ Len(nodes) # 0
    /\ \E i \in 1..Len(emb) : Len(emb[i]) # Len(embed_text(query_text))

\* A mutant of search_vector: the candidates are returned in corpus order.
search_vectorUnsorted(nodes, emb, query_text, top_k) ==
    IF Len(nodes) = 0 THEN <<>>
    ELSE LET sims == cosine_vec_matrix(emb, embed_text(query_text))
             top_indices == Slice([i \in 1..Len(nodes) |-> i], Min(top_k, Len(nodes)))
         IN [k \in 1..Len(top_indices) |->
                [id |-> nodes[top_indices[k]].id, name |-> nodes[top_indices[k]].name,
                 vector_score |-> sims[top_indices[k]]]]

\* search_vector without a metadata filter (no caller in the repository passes one)
search_vector(nodes, emb, query_text, top_k) ==
    IF Len(nodes) = 0 THEN <<>>
    ELSE LET q_embed == embed_text(query_text)
             sims == cosine_vec_matrix(emb, q_embed)
             top_k1 == Min(top_k, Len(nodes))
             top_indices == Slice(ArgsortDesc(sims, 1..Len(sims)), top_k1)
         IN [k \in 1..Len(top_indices) |->
                [id |-> nodes[top_indices[k]].id, name |-> nodes[top_indices[k]].name,
                 vector_score |-> sims[top_indices[k]]]]

\* ------------------------------------------------------------ hybrid fusion
\* the keys of {r["id"]: r["vector_score"] for r in vector_results}, in insertion order
RECURSIVE DictKeys(_, _, _)
DictKeys(vector_results, i, keys) ==
    IF i > Len(vector_results) THEN keys
    ELSE IF vector_results[i].id \in Range(keys)
    THEN DictKeys(vector_results, i + 1, keys)
    ELSE DictKeys(vector_results, i + 1, Append(keys, vector_results[i].id))

\* vec_scores[node_id]: the score of the last result with the id
DictValue(vector_results, node_id) ==
    vector_results[CHOOSE i \in 1..Len(vector_results) :
                      /\ vector_results[i].id = node_id
                      /\ \A j \in (i + 1)..Len(vector_results) :
                            vector_results[j].id # node_id].vector_score

\* next((n[field] for n in NODES if n["id"] == node_id), None)
NodeField(nodes, node_id, field) ==
    IF \E i \in 1..Len(nodes) : nodes[i].id = node_id
    THEN nodes[CHOOSE i \in 1..Len(nodes) :
                  nodes[i].id = node_id /\ \A j \in 1..(i - 1) : nodes[j].id # node_id][field]
    ELSE None

\* next((item["hop"] for item in visited if item["id"] == node_id), None)
HopOf(visited, node_id) ==
    IF \E i \in 1..Len(visited) : visited[i].id = node_id
    THEN Some(visited[CHOOSE i \in 1..Len(visited) :
                         /\ visited[i].id = node_id
                         /\ \A j \in 1..(i - 1) : visited[j].id # node_id].hop)
    ELSE Nothing

\* list.sort(key=final_score, reverse=True): stable, equal keys keep their order
RECURSIVE SortByFinal(_, _)
SortByFinal(merged, left) ==
    IF left = {} THEN <<>>
    ELSE LET i == CHOOSE i \in left :
                    \A j \in left :
                        \/ merged[j].final_score < merged[i].final_score
                        \/ merged[j].final_score = merged[i].final_score /\ i <= j
         IN <<merged[i]>> \o SortByFinal(merged, left \ {i})

\* the merge loop of hybrid_search for one candidate
MergedResult(nodes, node_id, vector_results, visited, alpha) ==
    LET v == DictValue(vector_results, node_id)
        g == graph_closeness(node_id, visited)
    IN [id |-> node_id,
        name |-> NodeField(nodes, node_id, "name"),
        text |-> NodeField(nodes, node_id, "text"),
        vector_score |-> v,
        graph_score |-> g,
        final_score |-> alpha * v + (AlphaUnit - alpha) * g,
        hop |-> HopOf(visited, node_id)]

\* A mutant of Merge: the candidates are not cut to top_k after the sort.
MergeUncut(nodes, vector_results, visited, alpha, top_k) ==
    LET keys == DictKeys(vector_results, 1, <<>>)
        merged == [k \in 1..Len(keys) |->
                      MergedResult(nodes, keys[k], vector_results, visited, alpha)]
    IN SortByFinal(merged, 1..Len(merged))

\* A mutant of Merge: the candidates are left in vector order.
MergeUnsorted(nodes, vector_results, visited, alpha, top_k) ==
    LET keys == DictKeys(vector_results, 1, <<>>)
        merged == [k \in 1..Len(keys) |->
                      MergedResult(nodes, keys[k], vector_results, visited, alpha)]
    IN Slice(merged, top_k)

\* steps 3 and 4 of hybrid_search: merge, sort, cut
Merge(nodes, vector_results, visited, alpha, top_k) ==
    LET keys == DictKeys(vector_results, 1, <<>>)
        merged == [k \in 1..Len(keys) |->
                      MergedResult(nodes, keys[k], vector_results, visited, alpha)]
    IN Slice(SortByFinal(merged, 1..Len(merged)), top_k)

\* A mutant of Anchor: an omitted focus_id anchors at the lowest-ranked candidate.
AnchorLowest(focus_id, vector_results) ==
    IF focus_id = Nothing /\ vector_results # <<>>
    THEN vector_results[Len(vector_results)].id
    ELSE focus_id[1]

\* the anchor of the traversal
Anchor(focus_id, vector_results) ==
    IF focus_id = Nothing /\ vector_results # <<>>
    THEN vector_results[1].id
    ELSE focus_id[1]

\* hybrid_search as one call, on a snapshot on which search_vector does not raise
hybrid_search(nodes, emb, hnodes, adj, query_text, top_k, focus_id, bfs_depth, alpha) ==
    LET vector_results == search_vector(nodes, emb, query_text, top_k)
    IN IF vector_results = <<>> THEN <<>>
       ELSE Merge(hnodes, vector_results,
                  bfs(adj, Anchor(focus_id, vector_results), bfs_depth, AllowedNone),
                  alpha, top_k)

\* ------------------------------------------------------------ CRUD helpers
Ids(recs) == {recs[i].id : i \in 1..Len(recs)}

\* max([r["id"] for r in recs], default=0)
MaxId(recs) ==
    IF recs = <<>> THEN 0
    ELSE CHOOSE m \in Ids(recs) : \A k \in Ids(recs) : k <= m

\* next((n for n in nodes if n["name"].lower() == nm), None): the index, 0 for None
FirstByName(nodes, nm) ==
    IF \E i \in 1..Len(nodes) : Lower(nodes[i].name) = nm
    THEN CHOOSE i \in 1..Len(nodes) :
            /\ Lower(nodes[i].name) = nm
            /\ \A j \in 1..(i - 1) : Lower(nodes[j].name) # nm
    ELSE 0

\* the loop over triples of create_node
RECURSIVE AutoEdges(_, _, _, _, _)
AutoEdges(triples, i, nodes, edges, created) ==
    IF i > Len(triples) THEN [edges |-> edges, created |-> created]
    ELSE LET t == triples[i]
             si == FirstByName(nodes, Lower(t.subject))
             oi == FirstByName(nodes, Lower(t.object))
         IN IF si # 0 /\ oi # 0
            THEN LET edge == [id |-> MaxId(edges) + 1, source |-> nodes[si].id,
                              target |-> nodes[oi].id, type |-> t.relation,
                              weight |-> DefaultWeight]
                 IN AutoEdges(triples, i + 1, nodes, Append(edges, edge),
                              Append(created, edge))
            ELSE AutoEdges(triples, i + 1, nodes, edges, created)

NoReq == [op |-> "none"]
NoLoc == [at |-> "none"]
NoRet == [kind |-> "none"]
NotFound == [kind |-> "error", status |-> 404]

Finish(t, response) ==
    /\ pc' = [pc EXCEPT ![t] = "idle"]
    /\ req' = [req EXCEPT ![t] = NoReq]
    /\ loc' = [loc EXCEPT ![t] = NoLoc]
    /\ ret' = [ret EXCEPT ![t] = response]

Goto(t, label, locals) ==
    /\ pc' = [pc EXCEPT ![t] = label]
    /\ loc' = [loc EXCEPT ![t] = locals]
    /\ UNCHANGED <<req, ret>>

\* ------------------------------------------------------------ node CRUD
\* POST /nodes: nodes = load(NODES_FILE)
cn_load_nodes(t) ==
    /\ pc[t] = "cn_load_nodes"
    /\ Goto(t, "cn_load_edges", [nodes |-> nodesFile])
    /\ UNCHANGED <<files, snapshot, served>>

\* edges = load(EDGES_FILE), then the handler's computation up to the first save
cn_load_edges(t) ==
    /\ pc[t] = "cn_load_edges"
    /\ LET nodes == loc[t].nodes
           edges == edgesFile
           new_id == MaxId(nodes) + 1
           new_node == [id |-> new_id, name |-> req[t].name, text |-> req[t].text,
                        metadata |-> <<>>, embedding |-> embed_text(req[t].text)]
           nodes1 == Append(nodes, new_node)
           auto == AutoEdges(extract_relations(req[t].text), 1, nodes1, edges, <<>>)
       IN /\ new_id <= MaxNodeId
          /\ MaxId(auto.edges) <= MaxEdgeId
          /\ Goto(t, "cn_save_nodes",
                  [nodes |-> nodes1, edges |-> auto.edges, new_node |-> new_node,
                   created_edges |-> auto.created])
    /\ UNCHANGED <<files, snapshot, served>>

\* save(NODES_FILE, nodes)
cn_save_nodes(t) ==
    /\ pc[t] = "cn_save_nodes"
    /\ nodesFile' = loc[t].nodes
    /\ Goto(t, "cn_save_edges", loc[t])
    /\ UNCHANGED <<edgesFile, snapshot, served>>

\* save(EDGES_FILE, edges) and the 201 response
cn_save_edges(t) ==
    /\ pc[t] = "cn_save_edges"
    /\ edgesFile' = loc[t].edges
    /\ Finish(t, [kind |-> "created_node", node |-> loc[t].new_node,
                  auto_edges_created |-> loc[t].created_edges])
    /\ UNCHANGED <<nodesFile, snapshot, served>>

\* the body of the for loop of update_node, applied to the first node with the id
UpdatedNode(n, upd) ==
    LET n1 == IF "name" \in DOMAIN upd THEN [n EXCEPT !.name = upd.name] ELSE n
    IN IF "text" \in DOMAIN upd
       THEN [n1 EXCEPT !.text = upd.text, !.embedding = embed_text(upd.text)]
       ELSE n1

\* A mutant of FirstById: an id no record has falls back to the last record.
FirstByIdOrLast(recs, id) ==
    IF id \in Ids(recs)
    THEN CHOOSE i \in 1..Len(recs) :
            recs[i].id = id /\ \A j \in 1..(i - 1) : recs[j].id # id
    ELSE Len(recs)

FirstById(recs, id) ==
    IF id \in Ids(recs)
    THEN CHOOSE i \in 1..Len(recs) :
            recs[i].id = id /\ \A j \in 1..(i - 1) : recs[j].id # id
    ELSE 0

\* PUT /nodes/{id}: load, find, mutate; 404 when no node has the id
un_load(t) ==
    /\ pc[t] = "un_load"
    /\ LET nodes == nodesFile
           i == FirstById(nodes, req[t].id)
       IN IF i = 0
          THEN Finish(t, NotFound)
          ELSE Goto(t, "un_save",
                    [nodes |-> [nodes EXCEPT ![i] = UpdatedNode(nodes[i], req[t].upd)],
                     node |-> UpdatedNode(nodes[i], req[t].upd)])
    /\ UNCHANGED <<files, snapshot, served>>

un_save(t) ==
    /\ pc[t] = "un_save"
    /\ nodesFile' = loc[t].nodes
    /\ Finish(t, [kind |-> "updated_node", node |-> loc[t].node])
    /\ UNCHANGED <<edgesFile, snapshot, served>>

\* DELETE /nodes/{id}: nodes = load(NODES_FILE)
dn_load_nodes(t) ==
    /\ pc[t] = "dn_load_nodes"
    /\ Goto(t, "dn_load_edges", [nodes |-> nodesFile])
    /\ UNCHANGED <<files, snapshot, served>>

\* removed_edges = [e for e in edges if e["source"] == id or e["target"] == id]
RemovedEdges(edges, id) ==
    SelectSeq(edges, LAMBDA e : e.source = id \/ e.target = id)

\* new_edges = [e for e in edges if e not in removed_edges]
KeptEdges(edges, removed) ==
    SelectSeq(edges, LAMBDA e : e \notin Range(removed))

\* edges = load(EDGES_FILE), the three comprehensions and the 404 test
dn_load_edges(t) ==
    /\ pc[t] = "dn_load_edges"
    /\ LET nodes == loc[t].nodes
           edges == edgesFile
           new_nodes == SelectSeq(nodes, LAMBDA n : n.id # req[t].id)
           removed_edges == RemovedEdges(edges, req[t].id)
           new_edges == KeptEdges(edges, removed_edges)
       IN IF Len(new_nodes) = Len(nodes)
          THEN Finish(t, NotFound)
          ELSE Goto(t, "dn_save_nodes",
                    [nodes |-> nodes, edges |-> edges, new_nodes |-> new_nodes,
                     removed_edges |-> removed_edges, new_edges |-> new_edges])
    /\ UNCHANGED <<files, snapshot, served>>

dn_save_nodes(t) ==
    /\ pc[t] = "dn_save_nodes"
    /\ nodesFile' = loc[t].new_nodes
    /\ Goto(t, "dn_save_edges", loc[t])
    /\ UNCHANGED <<edgesFile, snapshot, served>>

dn_save_edges(t) ==
    /\ pc[t] = "dn_save_edges"
    /\ edgesFile' = loc[t].new_edges
    /\ Finish(t, [kind |-> "deleted_node", id |-> req[t].id])
    /\ UNCHANGED <<nodesFile, snapshot, served>>

\* ------------------------------------------------------------ edge CRUD
\* POST /edges: load, next id, append
ce_load(t) ==
    /\ pc[t] = "ce_load"
    /\ LET edges == edgesFile
           new_edge == [id |-> MaxId(edges) + 1, source |-> req[t].source,
                        target |-> req[t].target, type |-> req[t].type,
                        weight |-> req[t].weight]
       IN /\ new_edge.id <= MaxEdgeId
          /\ Goto(t, "ce_save", [edges |-> Append(edges, new_edge), new_edge |-> new_edge])
    /\ UNCHANGED <<files, snapshot, served>>

ce_save(t) ==
    /\ pc[t] = "ce_save"
    /\ edgesFile' = loc[t].edges
    /\ Finish(t, [kind |-> "created_edge", edge |-> loc[t].new_edge])
    /\ UNCHANGED <<nodesFile, snapshot, served>>

UpdatedEdge(e, upd) ==
    LET e1 == IF "type" \in DOMAIN upd THEN [e EXCEPT !.type = upd.type] ELSE e
    IN IF "weight" \in DOMAIN upd THEN [e1 EXCEPT !.weight = upd.weight] ELSE e1

\* PUT /edges/{id}
ue_load(t) ==
    /\ pc[t] = "ue_load"
    /\ LET edges == edgesFile
           i == FirstById(edges, req[t].id)
       IN IF i = 0
          THEN Finish(t, NotFound)
          ELSE Goto(t, "ue_save",
                    [edges |-> [edges EXCEPT ![i] = UpdatedEdge(edges[i], req[t].upd)],
                     edge |-> UpdatedEdge(edges[i], req[t].upd)])
    /\ UNCHANGED <<files, snapshot, served>>

ue_save(t) ==
    /\ pc[t] = "ue_save"
    /\ edgesFile' = loc[t].edges
    /\ Finish(t, [kind |-> "updated_edge", edge |-> loc[t].edge])
    /\ UNCHANGED <<nodesFile, snapshot, served>>

\* DELETE /edges/{id}
de_load(t) ==
    /\ pc[t] = "de_load"
    /\ LET edges == edgesFile
           new_edges == SelectSeq(edges, LAMBDA e : e.id # req[t].id)
       IN IF Len(new_edges) = Len(edges)
          THEN Finish(t, NotFound)
          ELSE Goto(t, "de_save", [edges |-> edges, new_edges |-> new_edges])
    /\ UNCHANGED <<files, snapshot, served>>

de_save(t) ==
    /\ pc[t] = "de_save"
    /\ edgesFile' = loc[t].new_edges
    /\ Finish(t, [kind |-> "deleted_edge", id |-> req[t].id])
    /\ UNCHANGED <<nodesFile, snapshot, served>>

\* ------------------------------------------------------------ read path
\* GET /search/graph
graph_search(t) ==
    /\ pc[t] = "gs_call"
    /\ LET rel_type == req[t].rel_type
           allowed == IF rel_type # None /\ rel_type # ""
                      THEN AllowedList(<<rel_type>>) ELSE AllowedNone
       IN Finish(t, [kind |-> "bfs", start_id |-> req[t].start_id,
                     max_depth |-> req[t].depth, allowed_types |-> allowed,
                     visited |-> bfs(ADJ, req[t].start_id, req[t].depth, allowed)])
    /\ UNCHANGED <<files, snapshot, served>>

\* a direct call of bfs (as hybrid_search and the tests make it)
bfs_call(t) ==
    /\ pc[t] = "bfs_call"
    /\ Finish(t, [kind |-> "bfs", start_id |-> req[t].start_id,
                  max_depth |-> req[t].max_depth,
                  allowed_types |-> req[t].allowed_types,
                  visited |-> bfs(ADJ, req[t].start_id, req[t].max_depth,
                                  req[t].allowed_types)])
    /\ UNCHANGED <<files, snapshot, served>>

ServerError == [kind |-> "error", status |-> 500]

\* GET /search/vector
search_vector_get(t) ==
    /\ pc[t] = "sv_call"
    /\ IF SearchRaises(NODES, EMB_ARRAY, req[t].query_text)
       THEN Finish(t, ServerError)
       ELSE Finish(t, [kind |-> "vector", query_text |-> req[t].query_text,
                       top_k |-> req[t].top_k,
                       results |-> search_vector(NODES, EMB_ARRAY, req[t].query_text,
                                                 req[t].top_k)])
    /\ UNCHANGED <<files, snapshot, served>>

HybridResponse(r, results) ==
    [kind |-> "hybrid", query_text |-> r.query_text, top_k |-> r.top_k,
     focus_id |-> r.focus_id, bfs_depth |-> r.bfs_depth, alpha |-> r.alpha,
     results |-> results]

\* A mutant of hs_vector: an empty candidate list does not end the call.
hs_vectorNoEarlyReturn(t) ==
    /\ pc[t] = "hs_vector"
    /\ IF SearchRaises(NODES, EMB_ARRAY, req[t].query_text)
       THEN Finish(t, ServerError)
       ELSE Goto(t, "hs_bfs",
                 [vector_results |-> search_vector(NODES, EMB_ARRAY, req[t].query_text,
                                                   req[t].top_k)])
    /\ UNCHANGED <<files, snapshot, served>>

\* GET /search/hybrid, step 1: the vector search and the early return
hs_vector(t) ==
    /\ pc[t] = "hs_vector"
    /\ IF SearchRaises(NODES, EMB_ARRAY, req[t].query_text)
       THEN Finish(t, ServerError)
       ELSE LET vector_results == search_vector(NODES, EMB_ARRAY, req[t].query_text,
                                                req[t].top_k)
            IN IF vector_results = <<>>
               THEN Finish(t, HybridResponse(req[t], <<>>))
               ELSE Goto(t, "hs_bfs", [vector_results |-> vector_results])
    /\ UNCHANGED <<files, snapshot, served>>

\* A mutant of hs_bfs: the traversal registers its anchor with ADJ.setdefault.
hs_bfsSetDefault(t) ==
    /\ pc[t] = "hs_bfs"
    /\ LET focus_id == Anchor(req[t].focus_id, loc[t].vector_results)
       IN /\ ADJ' = IF focus_id \in DOMAIN ADJ THEN ADJ ELSE ADJ @@ (focus_id :> <<>>)
          /\ Goto(t, "hs_merge",
                  [vector_results |-> loc[t].vector_results, focus_id |-> focus_id,
                   visited |-> bfs(ADJ, focus_id, req[t].bfs_depth, AllowedNone)])
    /\ UNCHANGED <<files, NODES, EMB_ARRAY, NODE_IDS, hybrid_NODES, EDGES, served>>

\* step 2: the anchor and the traversal
hs_bfs(t) ==
    /\ pc[t] = "hs_bfs"
    /\ LET focus_id == Anchor(req[t].focus_id, loc[t].vector_results)
       IN Goto(t, "hs_merge",
               [vector_results |-> loc[t].vector_results, focus_id |-> focus_id,
                visited |-> bfs(ADJ, focus_id, req[t].bfs_depth, AllowedNone)])
    /\ UNCHANGED <<files, snapshot, served>>

\* steps 3 and 4: the merged scores, the sort and the cut
hs_merge(t) ==
    /\ pc[t] = "hs_merge"
    /\ Finish(t, HybridResponse(req[t],
                    Merge(hybrid_NODES, loc[t].vector_results, loc[t].visited,
                          req[t].alpha, req[t].top_k)))
    /\ UNCHANGED <<files, snapshot, served>>


\* ------------------------------------------------------------ bfs, step by step
\* the entry of bfs: the soft fail, then queue, visited and results, and the
\* iteration that pops the root (depth 0: nothing emitted, cutoff, neighbours)
bfs_enter(t) ==
    /\ pc[t] = "bfs_enter"
    /\ IF req[t].start_id \notin DOMAIN ADJ
       THEN Finish(t, [kind |-> "bfs", start_id |-> req[t].start_id,
                       max_depth |-> req[t].max_depth,
                       allowed_types |-> req[t].allowed_types, visited |-> <<>>])
       ELSE IF 0 = req[t].max_depth
            THEN Goto(t, "bfs_loop",
                      [queue |-> <<>>, visited |-> {req[t].start_id}, results |-> <<>>])
            ELSE LET x == Expand(AdjGet(ADJ, req[t].start_id), 1, 0,
                                 req[t].allowed_types, <<>>, {req[t].start_id})
                 IN Goto(t, "bfs_loop",
                         [queue |-> x.queue, visited |-> x.visited, results |-> <<>>])
    /\ UNCHANGED <<files, snapshot, served>>

\* A mutant of bfs_iter: neighbours are enqueued without being marked visited.
bfs_iterNoMark(t) ==
    /\ pc[t] = "bfs_loop"
    /\ IF loc[t].queue = <<>>
       THEN Finish(t, [kind |-> "bfs", start_id |-> req[t].start_id,
                       max_depth |-> req[t].max_depth,
                       allowed_types |-> req[t].allowed_types,
                       visited |-> loc[t].results])
       ELSE LET h == Head(loc[t].queue)
                res1 == IF h.depth > 0
                        THEN Append(loc[t].results,
                                    [id |-> h.node, hop |-> h.depth,
                                     edge |-> h.edge_type, weight |-> h.weight])
                        ELSE loc[t].results
            IN IF h.depth = req[t].max_depth
               THEN Goto(t, "bfs_loop",
                         [queue |-> Tail(loc[t].queue), visited |-> loc[t].visited,
                          results |-> res1])
               ELSE LET x == ExpandNoMark(AdjGet(ADJ, h.node), 1, h.depth,
                                          req[t].allowed_types, Tail(loc[t].queue),
                                          loc[t].visited)
                    IN Goto(t, "bfs_loop",
                            [queue |-> x.queue, visited |-> x.visited, results |-> res1])
    /\ UNCHANGED <<files, snapshot, served>>

\* the test of the while loop and one iteration of it; the return when it ends
bfs_iter(t) ==
    /\ pc[t] = "bfs_loop"
    /\ IF loc[t].queue = <<>>
       THEN Finish(t, [kind |-> "bfs", start_id |-> req[t].start_id,
                       max_depth |-> req[t].max_depth,
                       allowed_types |-> req[t].allowed_types,
                       visited |-> loc[t].results])
       ELSE LET h == Head(loc[t].queue)
                res1 == IF h.depth > 0
                        THEN Append(loc[t].results,
                                    [id |-> h.node, hop |-> h.depth,
                                     edge |-> h.edge_type, weight |-> h.weight])
                        ELSE loc[t].results
            IN IF h.depth = req[t].max_depth
               THEN Goto(t, "bfs_loop",
                         [queue |-> Tail(loc[t].queue), visited |-> loc[t].visited,
                          results |-> res1])
               ELSE LET x == Expand(AdjGet(ADJ, h.node), 1, h.depth,
                                    req[t].allowed_types, Tail(loc[t].queue),
                                    loc[t].visited)
                    IN Goto(t, "bfs_loop",
                            [queue |-> x.queue, visited |-> x.visited, results |-> res1])
    /\ UNCHANGED <<files, snapshot, served>>

\* ------------------------------------------------------------ requests
RelTypes == {None, ""} \cup Types
AllowedValues ==
    {AllowedNone, AllowedList(<<>>)}
    \cup {AllowedList(<<t>>) : t \in Types}
    \cup {AllowedList(<<"evolves_into", "related_to">>)}

GraphRequests ==
    {[op |-> "graph_search", start_id |-> s, depth |-> d, rel_type |-> r] :
        s \in NodeIds, d \in Depths, r \in RelTypes}
BfsRequests ==
    {[op |-> "bfs", start_id |-> s, max_depth |-> d, allowed_types |-> a] :
        s \in NodeIds, d \in Depths, a \in AllowedValues}

StoreIds == 1..MaxNodeId
EdgeIds == 1..MaxEdgeId

CrudRequests ==
    {[op |-> "create_node", name |-> n, text |-> x] : n \in Names, x \in Texts}
    \cup {[op |-> "update_node", id |-> i, upd |-> u] :
            i \in StoreIds, u \in {[name |-> "b"], [text |-> "a is B"]}}
    \cup {[op |-> "delete_node", id |-> i] : i \in StoreIds}
    \cup {[op |-> "create_edge", source |-> a, target |-> b,
           type |-> DefaultType, weight |-> DefaultWeight] :
            a \in StoreIds, b \in StoreIds}
    \cup {[op |-> "update_edge", id |-> i, upd |-> u] :
            i \in EdgeIds, u \in {[type |-> "evolves_into"], [weight |-> 2]}}
    \cup {[op |-> "delete_edge", id |-> i] : i \in EdgeIds}
    \cup {[op |-> "graph_search", start_id |-> s, depth |-> DefaultDepth,
           rel_type |-> None] : s \in StoreIds}

\* the first step of the handler of a request
Entry(op) ==
    CASE op = "create_node" -> "cn_load_nodes"
      [] op = "update_node" -> "un_load"
      [] op = "delete_node" -> "dn_load_nodes"
      [] op = "create_edge" -> "ce_load"
      [] op = "update_edge" -> "ue_load"
      [] op = "delete_edge" -> "de_load"
      [] op = "graph_search" -> "gs_call"
      [] op = "bfs" -> "bfs_call"
      [] op = "search_vector" -> "sv_call"
      [] op = "hybrid_search" -> "hs_vector"

\* a request arrives and a pool thread takes it
Start(t) ==
    /\ pc[t] = "idle"
    /\ served[t] < MaxRequests
    /\ \E r \in CrudRequests :
          /\ pc' = [pc EXCEPT ![t] = Entry(r.op)]
          /\ req' = [req EXCEPT ![t] = r]
    /\ served' = [served EXCEPT ![t] = @ + 1]
    /\ UNCHANGED <<files, snapshot, loc, ret>>

\* ------------------------------------------------------------ module import
\* json.load of the data files at import of vector_search.py and graph_search.py
LoadNodesSnapshot == nodesFile
LoadEdgesSnapshot == edgesFile

Embeddings(nodes) == [i \in 1..Len(nodes) |-> nodes[i].embedding]
Ragged(nodes) ==
    \E i, j \in 1..Len(nodes) : Len(nodes[i].embedding) # Len(nodes[j].embedding)

\* The try block of vector_search.py. np.array of rows of unequal length raises
\* ValueError on numpy 1.24 and later, which the except clause answers with empty
\* globals; earlier versions build an array of row objects.
LoadVectorIndex ==
    \/ /\ NODES = LoadNodesSnapshot
       /\ EMB_ARRAY = Embeddings(NODES)
       /\ NODE_IDS = [i \in 1..Len(NODES) |-> NODES[i].id]
    \/ /\ Ragged(LoadNodesSnapshot)
       /\ NODES = <<>>
       /\ EMB_ARRAY = <<>>
       /\ NODE_IDS = <<>>

Import ==
    /\ LoadVectorIndex
    /\ hybrid_NODES = LoadNodesSnapshot
    /\ EDGES = LoadEdgesSnapshot
    /\ ADJ = BuildADJ(EDGES)

\* the stores a process can start on: empty, or filled through the API before
InitialStores ==
    { [nodes |-> <<>>, edges |-> <<>>],
      [nodes |-> <<[id |-> 1, name |-> "A", text |-> "plain", metadata |-> <<>>,
                    embedding |-> embed_text("plain")],
                   [id |-> 2, name |-> "b", text |-> "plain", metadata |-> <<>>,
                    embedding |-> embed_text("plain")]>>,
       edges |-> <<[id |-> 1, source |-> 1, target |-> 2, type |-> "related_to",
                    weight |-> 2]>>] }

Init ==
    /\ \E st \in InitialStores : nodesFile = st.nodes /\ edgesFile = st.edges
    /\ Import
    /\ pc = [t \in Threads |-> "idle"]
    /\ req = [t \in Threads |-> NoReq]
    /\ loc = [t \in Threads |-> NoLoc]
    /\ ret = [t \in Threads |-> NoRet]
    /\ served = [t \in Threads |-> 0]

Next ==
    \E t \in Threads :
        \/ Start(t)
        \/ cn_load_nodes(t) \/ cn_load_edges(t) \/ cn_save_nodes(t) \/ cn_save_edges(t)
        \/ un_load(t) \/ un_save(t)
        \/ dn_load_nodes(t) \/ dn_load_edges(t) \/ dn_save_nodes(t) \/ dn_save_edges(t)
        \/ ce_load(t) \/ ce_save(t)
        \/ ue_load(t) \/ ue_save(t)
        \/ de_load(t) \/ de_save(t)
        \/ graph_search(t)

Spec == Init /\ [][Next]_vars

\* ------------------------------------------------------------ graph index alone
\* Edge records as utils/build_dataset.py and hand-written data files hold them:
\* weight and type are optional keys.
EdgeShapes(a, b) ==
    { [source |-> a, target |-> b, type |-> "evolves_into"],
      [source |-> a, target |-> b, type |-> "related_to", weight |-> 2],
      [source |-> a, target |-> b, weight |-> 1] }

EdgeRecords == UNION {EdgeShapes(a, b) : a \in NodeIds, b \in NodeIds}
EdgeLists == UNION {[1..n -> EdgeRecords] : n \in 0..MaxEdges}

\* any edge list on disk at import, and one traversal request to serve
InitGraph ==
    /\ nodesFile = <<>>
    /\ edgesFile \in EdgeLists
    /\ Import
    /\ \E r \in GraphRequests \cup BfsRequests :
          /\ pc = [t \in Threads |-> IF t = "t1" THEN Entry(r.op) ELSE "idle"]
          /\ req = [t \in Threads |-> IF t = "t1" THEN r ELSE NoReq]
    /\ loc = [t \in Threads |-> NoLoc]
    /\ ret = [t \in Threads |-> NoRet]
    /\ served = [t \in Threads |-> 0]

NextGraph == \E t \in Threads : graph_search(t) \/ bfs_call(t)

SpecGraph == InitGraph /\ [][NextGraph]_vars

\* ------------------------------------------------------------ search alone
\* Node records of a data file. nodes.json is written by utils/build_dataset.py,
\* by the API or by hand: the stored embedding is whatever the file holds.
SearchEmbeddings == {<<1, 0>>, <<3, 4>>, <<0, 0>>}
ShortEmbedding == <<1>>

CorpusNode(i, e) ==
    [id |-> i, name |-> IF i = 1 THEN "A" ELSE "b", text |-> "plain",
     metadata |-> <<>>, embedding |-> e]

RegularCorpora ==
    UNION {{[i \in 1..n |-> CorpusNode(i, f[i])] : f \in [1..n -> SearchEmbeddings]} :
              n \in 0..MaxNode}

\* a corpus whose last node has an embedding of another dimension
ShortCorpora ==
    {Append(c, CorpusNode(Len(c) + 1, ShortEmbedding)) :
        c \in {d \in RegularCorpora : Len(d) < MaxNode - 1}}

Corpora == RegularCorpora \cup ShortCorpora

\* the edge file of the search runs: any sub-list of these three edges
SearchEdges ==
    << [id |-> 1, source |-> 1, target |-> 2, type |-> "related_to", weight |-> 2],
       [source |-> 2, target |-> 3, type |-> "evolves_into"],
       [source |-> 1, target |-> 3, weight |-> 1] >>

RECURSIVE Pick(_, _, _)
Pick(seq, S, i) ==
    IF i > Len(seq) THEN <<>>
    ELSE IF i \in S THEN <<seq[i]>> \o Pick(seq, S, i + 1)
    ELSE Pick(seq, S, i + 1)

SearchEdgeLists == {Pick(SearchEdges, S, 1) : S \in SUBSET (1..Len(SearchEdges))}

TopKs == {-1, 0, 2, MaxNode + 1}
FocusIds == {Nothing, Some(MaxNode)}
Alphas == {0, 7, AlphaUnit}

VectorRequests ==
    {[op |-> "search_vector", query_text |-> q, top_k |-> k] : q \in Texts, k \in TopKs}
HybridRequests ==
    {[op |-> "hybrid_search", query_text |-> q, top_k |-> k, focus_id |-> f,
      bfs_depth |-> d, alpha |-> a] :
        q \in Texts, k \in TopKs, f \in FocusIds, d \in {1, MaxDepth}, a \in Alphas}

\* what a second pool thread serves meanwhile
ConcurrentReads ==
    { [op |-> "hybrid_search", query_text |-> "a is B", top_k |-> MaxNode,
       focus_id |-> Some(1), bfs_depth |-> MaxDepth, alpha |-> 7],
      [op |-> "bfs", start_id |-> 1, max_depth |-> MaxDepth,
       allowed_types |-> AllowedNone] }

\* any data files at import, one read request per pool thread
InitSearch ==
    /\ nodesFile \in Corpora
    /\ edgesFile \in SearchEdgeLists
    /\ Import
    /\ \E r1 \in VectorRequests \cup HybridRequests : \E r2 \in ConcurrentReads :
          /\ req = [t \in Threads |-> IF t = "t1" THEN r1 ELSE r2]
          /\ pc = [t \in Threads |->
                      IF t = "t1" THEN Entry(r1.op)
                      ELSE Entry(r2.op)]
    /\ loc = [t \in Threads |-> NoLoc]
    /\ ret = [t \in Threads |-> NoRet]
    /\ served = [t \in Threads |-> 0]

NextSearch ==
    \E t \in Threads :
        \/ search_vector_get(t)
        \/ hs_vector(t) \/ hs_bfs(t) \/ hs_merge(t)
        \/ bfs_call(t)

SpecSearch == InitSearch /\ [][NextSearch]_vars


\* ------------------------------------------------------------ one traversal
\* Edge files for a traversal followed step by step: every list of up to
\* MaxEdges edges, self-loops, parallel edges and cycles included.
TraverseEdges ==
    {[source |-> a, target |-> b, type |-> "related_to", weight |-> 2] :
        a \in NodeIds, b \in NodeIds}
TraverseEdgeLists == UNION {[1..n -> TraverseEdges] : n \in 0..MaxEdges}

TraverseRequests ==
    {[op |-> "bfs", start_id |-> s, max_depth |-> d, allowed_types |-> a] :
        s \in NodeIds, d \in Depths, a \in {AllowedNone, AllowedList(<<"evolves_into">>)}}

InitTraverse ==
    /\ nodesFile = <<>>
    /\ edgesFile \in TraverseEdgeLists
    /\ Import
    /\ \E r \in TraverseRequests :
          /\ pc = [t \in Threads |-> IF t = "t1" THEN "bfs_enter" ELSE "idle"]
          /\ req = [t \in Threads |-> IF t = "t1" THEN r ELSE NoReq]
    /\ loc = [t \in Threads |-> NoLoc]
    /\ ret = [t \in Threads |-> NoRet]
    /\ served = [t \in Threads |-> 0]

NextTraverse == \E t \in Threads : bfs_enter(t) \/ bfs_iter(t)

\* the thread that runs the loop keeps running
SpecTraverse == InitTraverse /\ [][NextTraverse]_vars /\ WF_vars(NextTraverse)

\* ---------------------------------------------------------------- claims
\* The undirected graph of the edge list, restricted to the types a filter allows.
TypePasses(allowed, t) == ~Truthy(allowed) \/ t \in Range(allowed.items)

Step(edges, allowed, S) ==
    S \cup {edges[i].target : i \in {j \in 1..Len(edges) :
                edges[j].source \in S /\ TypePasses(allowed, EdgeType(edges[j]))}}
      \cup {edges[i].source : i \in {j \in 1..Len(edges) :
                edges[j].target \in S /\ TypePasses(allowed, EdgeType(edges[j]))}}

RECURSIVE Within(_, _, _, _)
Within(edges, allowed, S, k) ==
    IF k = 0 THEN S ELSE Within(edges, allowed, Step(edges, allowed, S), k - 1)

\* length of the shortest path from a to b, -1 when there is none
Dist(edges, allowed, a, b) ==
    IF b \notin Within(edges, allowed, {a}, Len(edges)) THEN -1
    ELSE CHOOSE k \in 0..Len(edges) :
            /\ b \in Within(edges, allowed, {a}, k)
            /\ \A j \in 0..(k - 1) : b \notin Within(edges, allowed, {a}, j)

\* the traversal responses callers hold
BfsResponses == {ret[t] : t \in {u \in Threads : ret[u].kind = "bfs"}}
Entries(resp) == Range(resp.visited)

\* C2: depth bound - no entry returned by bfs(start_id, k) has hop > k, for
\* every integer k the graph query surface accepts.
C2_DepthBound ==
    \A resp \in BfsResponses : \A r \in Entries(resp) : r.hop <= resp.max_depth

\* C3: hop monotonicity - no two entries of one bfs result share an id, and each
\* entry's hop is the length of the shortest path from start_id to that node in
\* the undirected graph restricted to the allowed edge types.
C3_HopMonotonic ==
    \A resp \in BfsResponses :
        /\ \A i, j \in 1..Len(resp.visited) :
              resp.visited[i].id = resp.visited[j].id => i = j
        /\ \A r \in Entries(resp) :
              r.hop = Dist(EDGES, resp.allowed_types, resp.start_id, r.id)

\* a node adjacent to the start that is also reachable through another neighbour
C3_Witness ==
    \E resp \in BfsResponses : \E x, y \in Entries(resp) :
        /\ x.id # y.id /\ x.hop = 1 /\ y.hop = 1
        /\ \E i \in 1..Len(EDGES) : EDGES[i].source = x.id /\ EDGES[i].target = y.id

\* C4: symmetry - every edge (a, b, t, w) of the edge list has an entry for b in
\* a's adjacency list and one for a in b's, both with type t and weight w, and
\* every adjacency entry has a reverse entry with the same type and weight.
C4_Symmetry ==
    /\ \A i \in 1..Len(EDGES) :
          LET e == EDGES[i] IN
          /\ e.source \in DOMAIN ADJ /\ e.target \in DOMAIN ADJ
          /\ [target |-> e.target, type |-> EdgeType(e), weight |-> EdgeWeight(e)]
                \in Range(ADJ[e.source])
          /\ [target |-> e.source, type |-> EdgeType(e), weight |-> EdgeWeight(e)]
                \in Range(ADJ[e.target])
    /\ \A a \in DOMAIN ADJ : \A j \in 1..Len(ADJ[a]) :
          LET x == ADJ[a][j] IN
          /\ x.target \in DOMAIN ADJ
          /\ [target |-> a, type |-> x.type, weight |-> x.weight] \in Range(ADJ[x.target])

\* an adjacency built from an edge between two nodes with a weight of its own
C4_Witness ==
    \E i \in 1..Len(EDGES) :
        /\ EDGES[i].source # EDGES[i].target
        /\ EdgeWeight(EDGES[i]) # DefaultWeight
        /\ EDGES[i].target \in DOMAIN ADJ
        /\ Len(ADJ[EDGES[i].target]) >= 2

\* C5: type filter soundness - with a non-empty allowed_types, every emitted
\* entry's edge type is in allowed_types and every emitted node is connected to
\* start_id by a path of edges of allowed types only.
C5_TypeFilterSound ==
    \A resp \in BfsResponses :
        Truthy(resp.allowed_types) =>
            \A r \in Entries(resp) :
                /\ r.edge \in Range(resp.allowed_types.items)
                /\ r.id \in Within(EDGES, resp.allowed_types, {resp.start_id},
                                   Len(EDGES))

\* a filtered traversal that emits a node while an edge of another type is skipped
C5_Witness ==
    \E resp \in BfsResponses :
        /\ Truthy(resp.allowed_types)
        /\ Entries(resp) # {}
        /\ \E i \in 1..Len(EDGES) :
              /\ EDGES[i].source = resp.start_id
              /\ ~TypePasses(resp.allowed_types, EdgeType(EDGES[i]))
              /\ \A r \in Entries(resp) : r.id # EDGES[i].target

\* C6: root excluded - the result of bfs(start_id, ...) never holds an entry whose
\* id is start_id, cycles and self-loops on the start node included.
C6_RootExcluded ==
    \A resp \in BfsResponses : \A r \in Entries(resp) : r.id # resp.start_id

\* a traversal over a self-loop on the start node and a cycle back to it
C6_Witness ==
    \E resp \in BfsResponses :
        /\ \E r \in Entries(resp) : r.hop = 2
        /\ \E i \in 1..Len(EDGES) :
              EDGES[i].source = resp.start_id /\ EDGES[i].target = resp.start_id
        /\ \E i \in 1..Len(EDGES) :
              EDGES[i].target = resp.start_id /\ EDGES[i].source # resp.start_id

\* ------------------------------------------------------------ store claims
Incident(e, id) == e.source = id \/ e.target = id
VisitedIds(resp) == {r.id : r \in Entries(resp)}

\* thread t completes the handler it is in with this step
Completes(t, label) == pc[t] = label /\ pc'[t] = "idle"

\* C1: read-your-writes - after a mutation has completed, the next read the same
\* caller issues through bfs reflects it: an edge the caller created (and that is
\* still stored) is traversable from its source, and a node the caller deleted
\* (and that was not created again) is no longer returned.
C1_ReadYourWrites ==
    [][\A t \in Threads :
          Completes(t, "gs_call") =>
            /\ ( /\ ret[t].kind = "created_edge"
                 /\ ret[t].edge \in Range(edgesFile)
                 /\ ret[t].edge.source = req[t].start_id
                 /\ ret[t].edge.source # ret[t].edge.target
                 /\ req[t].depth >= 1 )
               => ret[t].edge.target \in VisitedIds(ret'[t])
            /\ ( /\ ret[t].kind = "deleted_node"
                 /\ ret[t].id \notin Ids(nodesFile) )
               => ret[t].id \notin VisitedIds(ret'[t])]_vars

\* C7: after any sequence of node and edge CRUD operations, the source and the
\* target of every stored edge are ids of stored nodes.
C7_NoDanglingEdges ==
    \A i \in 1..Len(edgesFile) :
        /\ edgesFile[i].source \in Ids(nodesFile)
        /\ edgesFile[i].target \in Ids(nodesFile)

\* C8: mutations are serialized - a create that completes beside another mutation
\* loses no stored record and gives its record an id no stored record has.
C8_MutationsSerialized ==
    [][\A t \in Threads :
          /\ (pc[t] = "cn_save_nodes" /\ pc'[t] = "cn_save_edges") =>
                /\ Range(nodesFile) \subseteq Range(nodesFile')
                /\ loc[t].new_node.id \notin Ids(nodesFile)
          /\ Completes(t, "ce_save") =>
                /\ Range(edgesFile) \subseteq Range(edgesFile')
                /\ loc[t].new_edge.id \notin Ids(edgesFile)]_vars

\* C9: a mutation is atomic over the node side and the edge side - no state a
\* reader can load shows the node data after delete_node or create_node and the
\* edge data before it.
C9_MutationAtomic ==
    \A t \in Threads :
        /\ ~ ( /\ pc[t] = "dn_save_edges"
               /\ req[t].id \notin Ids(nodesFile)
               /\ \E e \in Range(loc[t].removed_edges) : e \in Range(edgesFile) )
        /\ ~ ( /\ pc[t] = "cn_save_edges"
               /\ loc[t].new_node \in Range(nodesFile)
               /\ \E e \in Range(loc[t].created_edges) : e \notin Range(edgesFile) )

\* C10: delete cascade - when delete_node(id) succeeds, the edge store holds no
\* edge whose source or target is id, and every stored edge not incident to id
\* is still stored, unchanged.
C10_DeleteCascade ==
    [][\A t \in Threads :
          Completes(t, "dn_save_edges") =>
            /\ \A e \in Range(edgesFile') : ~Incident(e, req[t].id)
            /\ \A e \in Range(edgesFile) :
                  ~Incident(e, req[t].id) => e \in Range(edgesFile')]_vars

\* C11: a mutation addressed to an id the store does not hold (update_node,
\* delete_node, update_edge, delete_edge) ends in the 404 NotFound error for its
\* caller, and the step that decides it leaves both data files as they were.
C11_NotFoundNoEffect ==
    [][\A t \in Threads :
          ( \/ pc[t] = "un_load" /\ pc'[t] # "un_load"
                  /\ req[t].id \notin Ids(nodesFile)
            \/ pc[t] = "dn_load_edges" /\ pc'[t] # "dn_load_edges"
                  /\ req[t].id \notin Ids(loc[t].nodes)
            \/ pc[t] = "ue_load" /\ pc'[t] # "ue_load"
                  /\ req[t].id \notin Ids(edgesFile)
            \/ pc[t] = "de_load" /\ pc'[t] # "de_load"
                  /\ req[t].id \notin Ids(edgesFile) )
          => /\ pc'[t] = "idle"
             /\ ret'[t] = NotFound
             /\ files' = files]_vars

\* a caller holds a 404 while both stores hold records
C11_Witness ==
    \E t \in Threads :
        ret[t] = NotFound /\ nodesFile # <<>> /\ edgesFile # <<>>

\* C12: soft fail - bfs(start_id, ...) returns the empty list whenever start_id
\* has no adjacency entry, whatever max_depth and allowed_types are.
C12_SoftFail ==
    \A resp \in BfsResponses :
        resp.start_id \notin DOMAIN ADJ => resp.visited = <<>>

\* a traversal asked from a node without adjacency entry in a graph that has edges
C12_Witness ==
    \E resp \in BfsResponses :
        /\ resp.start_id \notin DOMAIN ADJ
        /\ DOMAIN ADJ # {}
        /\ resp.max_depth >= 1

\* ------------------------------------------------------------ search claims
VectorResponses == {ret[t] : t \in {u \in Threads : ret[u].kind = "vector"}}
HybridResponses == {ret[t] : t \in {u \in Threads : ret[u].kind = "hybrid"}}
IdsOf(results) == [i \in 1..Len(results) |-> results[i].id]

\* the candidates and the traversal a hybrid response was computed from
CandidatesOf(resp) == search_vector(NODES, EMB_ARRAY, resp.query_text, resp.top_k)
TraversalOf(resp) ==
    bfs(ADJ, Anchor(resp.focus_id, CandidatesOf(resp)), resp.bfs_depth, AllowedNone)

\* position of an id in a sequence of ids without repetition
PosIn(ids, id) == CHOOSE i \in 1..Len(ids) : ids[i] = id

DanglingEdge ==
    \E i \in 1..Len(edgesFile) :
        \/ edgesFile[i].source \notin Ids(nodesFile)
        \/ edgesFile[i].target \notin Ids(nodesFile)

\* C13: structural errors are fatal at index construction - no read is answered
\* from indices built from an edge list with an edge whose endpoint is not a
\* stored node, or from nodes whose embeddings differ in dimension.
C13_StructuralErrorsFatal ==
    (DanglingEdge \/ Ragged(nodesFile)) =>
        \A t \in Threads : ret[t].kind \notin {"bfs", "vector", "hybrid"}

\* C14: fusion at alpha = 1.0 - the sequence of ids hybrid_search returns equals
\* the sequence of ids search_vector returns for the same query and top_k,
\* whatever top_k, focus_id and bfs_depth are.
C14_AlphaOneIsVectorRanking ==
    \A resp \in HybridResponses :
        resp.alpha = AlphaUnit =>
            IdsOf(resp.results) = IdsOf(CandidatesOf(resp))

\* C15: fusion at alpha = 0.0 - the ids hybrid_search returns are the vector
\* candidates, each once, ordered by descending graph_closeness with respect to
\* the traversal from the anchor, equal closeness keeping the vector order.
C15_AlphaZeroIsClosenessRanking ==
    \A resp \in HybridResponses :
        resp.alpha = 0 =>
            LET out == IdsOf(resp.results)
                cand == IdsOf(CandidatesOf(resp))
                vis == TraversalOf(resp)
            IN /\ Len(out) = Len(cand)
               /\ Range(out) = Range(cand)
               /\ \A i, j \in 1..Len(out) :
                     i < j =>
                        \/ graph_closeness(out[i], vis) > graph_closeness(out[j], vis)
                        \/ /\ graph_closeness(out[i], vis) = graph_closeness(out[j], vis)
                           /\ PosIn(cand, out[i]) < PosIn(cand, out[j])

\* C16: for every integer top_k and every corpus with unique node ids,
\* hybrid_search returns as many results as search_vector returns candidates for
\* that top_k, with the same set of ids, in order of non-increasing final_score.
C16_SameCandidatesSorted ==
    \A resp \in HybridResponses :
        /\ Len(resp.results) = Len(CandidatesOf(resp))
        /\ Range(IdsOf(resp.results)) = Range(IdsOf(CandidatesOf(resp)))
        /\ \A i, j \in 1..Len(resp.results) :
              i < j => resp.results[i].final_score >= resp.results[j].final_score

\* C17: top-k saturation - search_vector with top_k greater than the number of
\* candidate nodes returns every candidate exactly once, in order of
\* non-increasing score.
C17_TopKSaturation ==
    \A resp \in VectorResponses :
        resp.top_k > Len(NODES) =>
            /\ Len(resp.results) = Len(NODES)
            /\ \A n \in 1..Len(NODES) :
                  Cardinality({i \in 1..Len(resp.results) :
                                  resp.results[i].id = NODES[n].id}) = 1
            /\ \A i, j \in 1..Len(resp.results) :
                  i < j => resp.results[i].vector_score >= resp.results[j].vector_score

\* a saturated search over three nodes with three different scores
C17_Witness ==
    \E resp \in VectorResponses :
        /\ resp.top_k > Len(NODES)
        /\ Len(resp.results) = MaxNode
        /\ resp.results[1].vector_score > resp.results[2].vector_score
        /\ resp.results[2].vector_score > resp.results[3].vector_score
        /\ resp.results[1].id # 1

\* every response a caller holds is the result of its call run alone
ResponsesAsAlone ==
    \A t \in Threads :
        /\ ret[t].kind = "bfs" =>
              ret[t].visited = bfs(ADJ, ret[t].start_id, ret[t].max_depth,
                                   ret[t].allowed_types)
        /\ ret[t].kind = "vector" =>
              ret[t].results = search_vector(NODES, EMB_ARRAY, ret[t].query_text,
                                             ret[t].top_k)
        /\ ret[t].kind = "hybrid" =>
              ret[t].results = hybrid_search(NODES, EMB_ARRAY, hybrid_NODES, ADJ,
                                             ret[t].query_text, ret[t].top_k,
                                             ret[t].focus_id, ret[t].bfs_depth,
                                             ret[t].alpha)

\* C18: the read path is side-effect-free and reentrant - no step of bfs,
\* search_vector or hybrid_search changes ADJ, NODES, EMB_ARRAY or NODE_IDS, and
\* under every interleaving of concurrent reads each call returns what it
\* returns when run alone on the snapshot.
C18_ReadPathReentrant ==
    []ResponsesAsAlone /\ [][snapshot' = snapshot]_vars

\* a hybrid call completed with results while another one is between its
\* traversal and its merge
C18_Witness ==
    \E t, u \in Threads :
        /\ t # u
        /\ pc[t] = "hs_merge"
        /\ loc[t].visited # <<>>
        /\ ret[u].kind = "hybrid"
        /\ Len(ret[u].results) >= 2

\* C19: when the vector search yields no candidates, hybrid_search returns the
\* empty list at once: the call never reaches the traversal.
C19_EmptyCandidatesNoTraversal ==
    [][\A t \in Threads :
          /\ ( /\ pc[t] = "hs_vector" /\ pc'[t] # "hs_vector"
               /\ ~SearchRaises(NODES, EMB_ARRAY, req[t].query_text)
               /\ search_vector(NODES, EMB_ARRAY, req[t].query_text, req[t].top_k) = <<>> )
             => /\ pc'[t] = "idle"
                /\ ret'[t].kind = "hybrid"
                /\ ret'[t].results = <<>>
          /\ pc'[t] \in {"hs_bfs", "hs_merge"} => loc'[t].vector_results # <<>>]_vars

\* a hybrid call with top_k = 0 answered empty on a corpus that has nodes
C19_Witness ==
    \E resp \in HybridResponses :
        /\ resp.results = <<>>
        /\ resp.top_k = 0
        /\ Len(NODES) >= 2
        /\ DOMAIN ADJ # {}

\* C20: graph_closeness(node_id, result) is weight / (1 + hop) of the entry of
\* result whose id is node_id, and exactly 0 when result has no such entry.
C20_Closeness ==
    [][\A t \in Threads :
          Completes(t, "hs_merge") =>
            \A k \in 1..Len(ret'[t].results) :
                LET r == ret'[t].results[k]
                    hits == {e \in Range(loc[t].visited) : e.id = r.id}
                IN IF hits = {}
                   THEN r.graph_score = 0
                   ELSE \A e \in hits :
                           r.graph_score * (1 + e.hop) = EdgeWeight(e) * ScoreUnit]_vars

\* a response with a candidate two hops away over a weighted edge, and one
\* candidate the traversal did not reach
C20_Witness ==
    \E resp \in HybridResponses :
        /\ \E k \in 1..Len(resp.results) :
              resp.results[k].hop = Some(2) /\ resp.results[k].graph_score > 0
        /\ \E k \in 1..Len(resp.results) :
              resp.results[k].hop = Some(1) /\ resp.results[k].graph_score = ScoreUnit
        /\ \E k \in 1..Len(resp.results) :
              resp.results[k].hop = Nothing /\ resp.results[k].graph_score = 0

\* ------------------------------------------------------------ traversal claims
\* the nodes a traversal dequeued at one hop, in queue order (the start at hop 0)
DequeuedAt(resp, hop) ==
    IF hop = 0 THEN <<resp.start_id>>
    ELSE IdsOf(SelectSeq(resp.visited, LAMBDA r : r.hop = hop))

\* the adjacency entries of node p that lead to node n over an allowed type
EdgesTo(resp, p, n) ==
    SelectSeq(AdjGet(ADJ, p),
              LAMBDA e : e.target = n /\ TypePasses(resp.allowed_types, e.type))

\* the first node, in queue order, of the previous hop with an edge to r
Discoverer(resp, r) ==
    LET prev == DequeuedAt(resp, r.hop - 1)
    IN prev[CHOOSE i \in 1..Len(prev) :
               /\ EdgesTo(resp, prev[i], r.id) # <<>>
               /\ \A j \in 1..(i - 1) : EdgesTo(resp, prev[j], r.id) = <<>>]

C22_EmptyFilterIsNoFilter ==
    \A resp \in BfsResponses :
        resp.allowed_types = AllowedList(<<>>) =>
            resp.visited = bfs(ADJ, resp.start_id, resp.max_depth, AllowedNone)

\* a traversal with allowed_types = [] that emits nodes over both edge types
C22_Witness ==
    \E resp \in BfsResponses :
        /\ resp.allowed_types = AllowedList(<<>>)
        /\ \E r, q \in Entries(resp) : r.edge # q.edge

\* C23: completeness of the bounded traversal - for max_depth = k >= 0, bfs
\* returns exactly the nodes other than start_id whose shortest-path distance
\* from start_id over edges of allowed types is between 1 and k.
C23_BoundedComplete ==
    \A resp \in BfsResponses :
        resp.max_depth >= 0 =>
            VisitedIds(resp) =
                {n \in NodeIds \ {resp.start_id} :
                    Dist(EDGES, resp.allowed_types, resp.start_id, n)
                        \in 1..resp.max_depth}

\* a traversal of depth 1 that emits a neighbour and leaves out a node two hops away
C23_Witness ==
    \E resp \in BfsResponses :
        /\ resp.max_depth = 1
        /\ VisitedIds(resp) # {}
        /\ \E n \in NodeIds :
              Dist(EDGES, resp.allowed_types, resp.start_id, n) = 2

\* every node the loop holds was enqueued once: the queue and the results hold
\* no id twice and share none, and visited counts the enqueues (the root, which
\* the entry enqueued and popped, and the nodes in the queue and the results)
EnqueuedOnce ==
    \A t \in Threads :
        pc[t] = "bfs_loop" =>
            LET q == [i \in 1..Len(loc[t].queue) |-> loc[t].queue[i].node]
                out == IdsOf(loc[t].results)
            IN /\ \A i, j \in 1..Len(q) : q[i] = q[j] => i = j
               /\ \A i, j \in 1..Len(out) : out[i] = out[j] => i = j
               /\ Range(q) \cap Range(out) = {}
               /\ req[t].start_id \notin Range(q) \cup Range(out)
               /\ Range(q) \cup Range(out) \subseteq loc[t].visited
               /\ Cardinality(loc[t].visited) = Len(q) + Len(out) + 1

\* C24: cycle-safety - on every finite graph, with cycles, parallel edges and
\* self-loops, for every start_id and every integer max_depth, each node is
\* enqueued at most once and bfs terminates.
C24_CycleSafe ==
    /\ []EnqueuedOnce
    /\ \A t \in Threads : (pc[t] = "bfs_enter") ~> (pc[t] = "idle")

\* a traversal without depth limit that ended on a graph with a self-loop on the
\* start and two edges, one in each direction, between the start and a neighbour
C24_Witness ==
    \E resp \in BfsResponses :
        /\ resp.max_depth = -1
        /\ resp.visited # <<>>
        /\ \E i \in 1..Len(EDGES) :
              EDGES[i].source = resp.start_id /\ EDGES[i].target = resp.start_id
        /\ \E i, j \in 1..Len(EDGES) :
              /\ EDGES[i].source = resp.start_id
              /\ EDGES[i].target # resp.start_id
              /\ EDGES[j].source = EDGES[i].target
              /\ EDGES[j].target = resp.start_id

\* the results of a hybrid response that are its top-ranked vector candidate
AnchorResults(resp) ==
    SelectSeq(resp.results, LAMBDA r : r.id = CandidatesOf(resp)[1].id)

AnchorScoredByVectorOnly ==
    \A resp \in HybridResponses :
        resp.focus_id = Nothing =>
            \A i \in 1..Len(AnchorResults(resp)) :
                LET r == AnchorResults(resp)[i]
                IN /\ r.graph_score = 0
                   /\ r.hop = Nothing
                   /\ r.final_score = resp.alpha * r.vector_score

\* C25: when focus_id is omitted, hybrid_search anchors the traversal at the
\* top-ranked vector candidate, and that candidate always gets graph_score 0 and
\* hop None, so that its final_score is alpha * vector_score.
C25_AnchorIsTopCandidate ==
    /\ []AnchorScoredByVectorOnly
    /\ [][\A t \in Threads :
             (pc[t] = "hs_bfs" /\ pc'[t] = "hs_merge" /\ req[t].focus_id = Nothing) =>
                 /\ loc'[t].focus_id = loc[t].vector_results[1].id
                 /\ loc'[t].visited =
                        bfs(ADJ, loc[t].vector_results[1].id, req[t].bfs_depth,
                            AllowedNone)]_vars

\* a response without focus_id, with mixed weights, whose anchor has outgoing
\* edges and a positive vector score, and in which another candidate was reached
C25_Witness ==
    \E resp \in HybridResponses :
        /\ resp.focus_id = Nothing
        /\ resp.alpha \notin {0, AlphaUnit}
        /\ resp.results # <<>>
        /\ AnchorResults(resp) # <<>>
        /\ AnchorResults(resp)[1].vector_score > 0
        /\ CandidatesOf(resp)[1].id \in DOMAIN ADJ
        /\ AdjGet(ADJ, CandidatesOf(resp)[1].id) # <<>>
        /\ \E i \in 1..Len(resp.results) :
              resp.results[i].hop # Nothing /\ resp.results[i].graph_score > 0

====
